---- MODULE Spec2Model ----
\* Model of the dispatch-and-resilience core of teradata_mcp_server/server.py:
\* the warehouse connection handle (_tdconn), the vector-store session
\* (_evs, _enableEVS), the tool wrappers execute_db_tool / execute_vs_tool,
\* the tools that bypass them, and the signal-driven shutdown.
EXTENDS Integers, Sequences, FiniteSets, TLC

VARIABLES
    pc,                   \* position of the process: "STARTING", "RUNNING", "TERMINATED"
                          \* (os._exit in shutdown), "EXITED" (main() ended)
    worker,               \* the single event loop: "idle", or "stuck" in a blocking call
    _tdconn,              \* server.py:42  the TDConn object: [id, conn]
    connAlive,            \* whether the raw connection of _tdconn is alive on the warehouse side
    made,                 \* number of TDConn objects constructed so far
    _enableEVS,           \* server.py:45
    evsInit,              \* outcome of the start-up attempt of server.py:48-54
    _evs,                 \* server.py:50  generation of the stored vector-store session
    fs_config,            \* server.py:585
    shutdown_in_progress, \* server.py:39
    sigPending,           \* signals delivered to the loop and not handled yet
    sigsSent,             \* number of signals sent so far
    shutdownEntries,      \* number of times shutdown() was entered
    handledLate,          \* shutdown() has run for a signal that came after the first shutdown() began
    teardown,             \* what the last shutdown() got done: marker removed, handle closed
    codec,                \* the last string given to a response formatter, and what it returned
    loader,               \* the custom tool files, and what loading them has registered so far
    sched,                \* the calls waiting for the worker, and how far each has got
    best,                 \* the search records and FAQ rows of a best-answer call, and its result
    exitStatus,           \* status given to os._exit, None while running
    aliveFile,            \* whether /tmp/.alive exists
    transport,            \* MCP_TRANSPORT
    lastCall              \* what the last tool call did

vars == <<pc, worker, _tdconn, connAlive, made, _enableEVS, evsInit, _evs, fs_config,
          shutdown_in_progress, sigPending, sigsSent, shutdownEntries, handledLate,
          teardown, codec, loader, sched, best, exitStatus, aliveFile, transport, lastCall>>

\* ---------------------------------------------------------------- bounds
MaxRecords == 2     \* records returned by one similarity search
MaxPending == 2     \* calls waiting for the worker at the same time
MaxDefs == 2        \* records in the custom tool files, all files together
MaxLen == 5         \* characters of a string given to a response formatter
MaxConns == 2
MaxSessions == 2
MaxSignals == 3

\* ---------------------------------------------------------------- constants
None == "None"
SIGINT == 2
SIGTERM == 15
IndentWidth == 2
Signals == {SIGTERM, SIGINT}
Transports == {"stdio", "sse", "streamable-http"}

\* ---------------------------------------------------------------- texts
\* A text is a sequence of words; `x in text` of Python is Contains.
Contains(text, sub) ==
    \E i \in 0..(Len(text) - Len(sub)) : SubSeq(text, i + 1, i + Len(sub)) = sub

ExpiredTexts == {<<"401", "Unauthorized">>, <<"Session", "expired">>}
OtherTexts == {<<"Session", "closed">>}
ErrTexts == ExpiredTexts \cup OtherTexts

UnavailableText == <<"Enterprise", "Vector", "Store", "is", "not", "available", "on", "this", "server.">>
StillFailedPrefix == <<"After", "refresh,", "still", "failed:">>
ErrorMarker == <<"Error:">>

\* A value handed to format_text_response: a string that json.loads rejects
\* (kept as its words), or a string that json.loads accepts (kept as the object
\* it parses to: status and payload).
NoObj == [status |-> "none", payload |-> <<>>]
Plain(text) == [json |-> FALSE, text |-> text, obj |-> NoObj]
Json(status, payload) == [json |-> TRUE, text |-> <<>>, obj |-> [status |-> status, payload |-> payload]]

\* evs_tools.py create_response: the JSON text of {"status": "success", "results": data}
create_response(data) == Json("success", data)
\* evs_tools.py:83 and :199  json.dumps({"status": "error", "message": str(e)})
error_json(text) == Json("error", text)

format_text_response(v) ==
    IF v.json THEN [type |-> "text", pretty |-> TRUE, text |-> <<>>, obj |-> v.obj]
              ELSE [type |-> "text", pretty |-> FALSE, text |-> v.text, obj |-> NoObj]

format_error_response(error) == format_text_response(Plain(ErrorMarker \o error))

NoResp == [type |-> "none", pretty |-> FALSE, text |-> <<>>, obj |-> NoObj]

\* ---------------------------------------------------------------- warehouse connection
\* td.TDConn(): a new object holding a raw connection ("ok"), a new object
\* holding none because the connect failed or is not configured ("none"), or an
\* exception out of the constructor ("raise").
TDConnOutcomes == {"ok", "none", "raise"}
TDConn(out, id) == [raised |-> out = "raise", obj |-> [id |-> id, conn |-> out = "ok"]]

\* TDConn.close(): nothing to do without a raw connection; with one, the close
\* returns, raises, or blocks on the network.
CloseOutcomes(tdconn) == IF tdconn.conn THEN {"ok", "raise", "hang"} ELSE {"ok"}

\* server.py:90  `if not _tdconn.conn`
NeedsConnect_always(tdconn) == TRUE
NeedsConnect(tdconn) == ~tdconn.conn

\* A warehouse handler (td.handle_*) run with a TDConn: it fails without a live
\* raw connection, otherwise it returns its JSON text or fails in the query.
HandlerOutcomes == {"ok", "raise"}
db_handler(tdconn, alive, out) ==
    IF ~tdconn.conn THEN [raised |-> TRUE, text |-> <<"No", "connection">>, value |-> Plain(<<>>)]
    ELSE IF ~alive THEN [raised |-> TRUE, text |-> <<"socket", "closed">>, value |-> Plain(<<>>)]
    ELSE IF out = "raise" THEN [raised |-> TRUE, text |-> <<"SQL", "failed">>, value |-> Plain(<<>>)]
    ELSE [raised |-> FALSE, text |-> <<>>, value |-> create_response(<<"rows">>)]

\* ---------------------------------------------------------------- vector store
\* One run of a vector-store handler meets get_evs() and then
\* vs.similarity_search(); each returns or fails with an error text.
OkRun == [get |-> "ok", search |-> "ok", text |-> <<>>]
EvsRuns ==
    {OkRun}
    \cup {[get |-> "raise", search |-> "ok", text |-> t] : t \in ErrTexts}
    \cup {[get |-> "ok", search |-> "raise", text |-> t] : t \in ErrTexts}

\* server.py:45-54  the flag after the start-up attempt
enable_evs_before_connect(configured, connectOut) == configured
enable_evs(configured, connectOut) == configured /\ connectOut = "ok"

\* server.py:107  `"401" in str(e) or "Session expired" in str(e)`
has_expiry_signature_loose(text) ==
    Contains(text, <<"401">>) \/ Contains(text, <<"Session">>)

has_expiry_signature(text) ==
    Contains(text, <<"401">>) \/ Contains(text, <<"Session", "expired">>)

\* evs_tools.py:57-83
handle_evs_similarity_search(run) ==
    IF run.get = "raise"
      THEN \* line 66 is outside the try
           [raised |-> TRUE, text |-> run.text, value |-> Plain(<<>>), evsCalls |-> 1]
    ELSE IF run.search = "raise"
      THEN \* lines 81-83
           [raised |-> FALSE, text |-> <<>>, value |-> error_json(run.text), evsCalls |-> 2]
    ELSE [raised |-> FALSE, text |-> <<>>, value |-> create_response(<<"matches">>), evsCalls |-> 2]

\* server.py:109-114  the refresh and the one retried execution
vs_refresh_and_retry_again(evs, refreshOut, run2) ==
    LET h2 == handle_evs_similarity_search(run2)
    IN  IF refreshOut = "raise"
          THEN [resp |-> NoResp, raised |-> TRUE, evs |-> evs, refreshes |-> 1,
                execs |-> 0, evsCalls |-> 0]
        ELSE IF ~h2.raised
          THEN [resp |-> format_text_response(h2.value), raised |-> FALSE, evs |-> evs + 1,
                refreshes |-> 1, execs |-> 1, evsCalls |-> h2.evsCalls]
        ELSE IF has_expiry_signature(h2.text)
          THEN \* refresh and execute once more
               [resp |-> format_error_response(StillFailedPrefix \o h2.text), raised |-> FALSE,
                evs |-> evs + 2, refreshes |-> 2, execs |-> 2, evsCalls |-> 2 * h2.evsCalls]
        ELSE [resp |-> format_error_response(StillFailedPrefix \o h2.text), raised |-> FALSE,
              evs |-> evs + 1, refreshes |-> 1, execs |-> 1, evsCalls |-> h2.evsCalls]

vs_refresh_and_retry(evs, refreshOut, run2) ==
    LET h2 == handle_evs_similarity_search(run2)
    IN  IF refreshOut = "raise"
          THEN \* line 109 is inside the except clause and outside any try
               [resp |-> NoResp, raised |-> TRUE, evs |-> evs, refreshes |-> 1,
                execs |-> 0, evsCalls |-> 0]
        ELSE IF ~h2.raised
          THEN [resp |-> format_text_response(h2.value), raised |-> FALSE, evs |-> evs + 1,
                refreshes |-> 1, execs |-> 1, evsCalls |-> h2.evsCalls]
        ELSE [resp |-> format_error_response(StillFailedPrefix \o h2.text), raised |-> FALSE,
              evs |-> evs + 1, refreshes |-> 1, execs |-> 1, evsCalls |-> h2.evsCalls]

\* server.py:99-119 with the tool of server.py:516-520
execute_vs_tool(enabled, evs, run1, refreshOut, run2) ==
    LET h1 == handle_evs_similarity_search(run1)
        r  == vs_refresh_and_retry(evs, refreshOut, run2)
    IN  IF ~enabled
          THEN [resp |-> format_error_response(UnavailableText), raised |-> FALSE, evs |-> evs,
                refreshes |-> 0, execs |-> 0, evsCalls |-> 0]
        ELSE IF ~h1.raised
          THEN [resp |-> format_text_response(h1.value), raised |-> FALSE, evs |-> evs,
                refreshes |-> 0, execs |-> 1, evsCalls |-> h1.evsCalls]
        ELSE IF has_expiry_signature(h1.text)
          THEN [r EXCEPT !.execs = @ + 1, !.evsCalls = @ + h1.evsCalls]
        ELSE [resp |-> format_error_response(h1.text), raised |-> FALSE, evs |-> evs,
              refreshes |-> 0, execs |-> 1, evsCalls |-> h1.evsCalls]

\* evs_tools.py:154-199
NoSimilarText == <<"(No", "similar", "question", "found)">>
NoAnswerText == <<"(No", "answer", "for", "this", "kb_id)">>
AnswerText == <<"the", "stored", "answer">>
RecordOutcomes == {"empty", "some"}
RowOutcomes == {"row", "norow"}
handle_evs_similarity_search_getAnswerOnly(tdconn, alive, run, recs, rowOut) ==
    IF run.get = "raise"
      THEN \* line 168 is outside the try
           [raised |-> TRUE, text |-> run.text, value |-> Plain(<<>>), evsCalls |-> 1, touched |-> FALSE]
    ELSE IF run.search = "raise"
      THEN [raised |-> FALSE, text |-> <<>>, value |-> error_json(run.text), evsCalls |-> 2, touched |-> FALSE]
    ELSE IF recs = "empty"
      THEN [raised |-> FALSE, text |-> <<>>, value |-> Plain(NoSimilarText), evsCalls |-> 2, touched |-> FALSE]
    ELSE IF ~tdconn.conn
      THEN [raised |-> FALSE, text |-> <<>>, value |-> error_json(<<"No", "connection">>), evsCalls |-> 2, touched |-> FALSE]
    ELSE IF ~alive
      THEN [raised |-> FALSE, text |-> <<>>, value |-> error_json(<<"socket", "closed">>), evsCalls |-> 2, touched |-> TRUE]
    ELSE IF rowOut = "row"
      THEN [raised |-> FALSE, text |-> <<>>, value |-> Plain(AnswerText), evsCalls |-> 2, touched |-> TRUE]
    ELSE [raised |-> FALSE, text |-> <<>>, value |-> Plain(NoAnswerText), evsCalls |-> 2, touched |-> TRUE]

\* ---------------------------------------------------------------- execute_db_tool
DbTools == {"base_readQuery", "vector_store_best_answer"}

\* What a tool call draws from its environment.
HandlerInputs(tool) ==
    IF tool = "vector_store_best_answer"
      THEN {[out |-> "ok", run |-> run, recs |-> recs, row |-> row] :
              run \in EvsRuns, recs \in RecordOutcomes, row \in RowOutcomes}
      ELSE {[out |-> out, run |-> OkRun, recs |-> "empty", row |-> "norow"] : out \in HandlerOutcomes}

\* server.py:93  tool(_tdconn, *args, **kwargs) for the tools routed through execute_db_tool
run_db_tool(tool, tdconn, alive, hin) ==
    IF tool = "vector_store_best_answer"
      THEN handle_evs_similarity_search_getAnswerOnly(tdconn, alive, hin.run, hin.recs, hin.row)
      ELSE LET h == db_handler(tdconn, alive, hin.out)
           IN  [raised |-> h.raised, text |-> h.text, value |-> h.value, evsCalls |-> 0,
                touched |-> tdconn.conn]

\* server.py:86-96
execute_db_tool(tool, tdconn, alive, id, tdOut, hin) ==
    LET need  == NeedsConnect(tdconn)
        c     == TDConn(tdOut, id)
        ctorRaised == need /\ c.raised
        conn1  == IF need /\ ~c.raised THEN c.obj ELSE tdconn
        alive1 == IF need /\ ~c.raised THEN c.obj.conn ELSE alive
        h == run_db_tool(tool, conn1, alive1, hin)
    IN  [tdconn |-> conn1, alive |-> alive1,
         constructed |-> need, stored |-> need /\ ~c.raised,
         handlerRan |-> ~ctorRaised,
         handedUsable |-> ~ctorRaised /\ conn1.conn /\ alive1,
         evsCalls |-> IF ctorRaised THEN 0 ELSE h.evsCalls,
         touched |-> ~ctorRaised /\ h.touched,
         raised |-> FALSE,
         resp |-> IF ctorRaised THEN format_error_response(<<"connect", "failed">>)
                  ELSE IF h.raised THEN format_error_response(h.text)
                  ELSE format_text_response(h.value)]

\* ---------------------------------------------------------------- feature store configuration
DbNames == {"db1", "DB1", "db2"}
Upper(name) == IF name = "db1" THEN "DB1" ELSE IF name = "db2" THEN "DB2" ELSE name
DataDomains == {"d1"}
Entities == {"e1"}
FsConnectOutcomes == {"true", "false", "raise"}
SqlCountOutcomes == {"pos", "zero", "raise"}

\* server.py:585  FeatureStoreConfig()
FeatureStoreConfig ==
    [db_name |-> None, data_domain |-> None, entity |-> None,
     feature_catalog |-> None, process_catalog |-> None, dataset_catalog |-> None]

\* server.py:616-620  f"{db_name}.{view}"
FeatureCatalogView == "FEATURE_CATALOG_NAME_VIEW"
ProcessCatalogView == "PROCESS_CATALOG_NAME_VIEW"
DatasetCatalogView == "FS_V_FS_DATASET_CATALOG"
CatalogName(db_name, view) == <<db_name, ".", view>>

\* server.py:611-612  the stored data_domain after a connect to db_name
data_domain_kept_on_connect(cfg, db_name) == cfg.data_domain
data_domain_on_connect(cfg, db_name) ==
    IF ~(cfg.db_name /= None /\ Upper(cfg.db_name) = Upper(db_name)) THEN None ELSE cfg.data_domain

\* server.py:601-641
fs_setFeatureStoreConfig(cfg, data_domain, db_name, entity, connOut, q1, q2) ==
    LET \* lines 607-621
        raised1 == db_name /= None /\ connOut = "raise"
        cfg1 == IF db_name /= None /\ connOut = "true"
                  THEN [cfg EXCEPT
                          !.data_domain = data_domain_on_connect(cfg, db_name),
                          !.db_name = db_name,
                          !.feature_catalog = CatalogName(db_name, FeatureCatalogView),
                          !.process_catalog = CatalogName(db_name, ProcessCatalogView),
                          !.dataset_catalog = CatalogName(db_name, DatasetCatalogView)]
                  ELSE cfg
        \* lines 623-631
        do2 == cfg1.db_name /= None /\ data_domain /= None
        raised2 == do2 /\ q1 = "raise"
        cfg2 == IF do2 /\ q1 = "pos" THEN [cfg1 EXCEPT !.data_domain = data_domain]
                ELSE IF do2 /\ q1 = "zero" THEN [cfg1 EXCEPT !.data_domain = None]
                ELSE cfg1
        \* lines 633-639; line 634 evaluates data_domain.upper() on the argument
        do3 == cfg2.db_name /= None /\ cfg2.data_domain /= None /\ entity /= None
        raised3 == do3 /\ (data_domain = None \/ q2 = "raise")
        cfg3 == IF do3 /\ ~raised3 /\ q2 = "pos" THEN [cfg2 EXCEPT !.entity = entity] ELSE cfg2
        \* which of tdfs4ds.connect (608), execute_sql (626), execute_sql (636) ran
        ran1 == db_name /= None
        ran2 == ~raised1 /\ do2
        ran3 == ~raised1 /\ ~raised2 /\ do3 /\ data_domain /= None
    IN  [cfg |-> IF raised1 THEN cfg ELSE IF raised2 THEN cfg1 ELSE IF raised3 THEN cfg2 ELSE cfg3,
         raised |-> raised1 \/ raised2 \/ raised3,
         ran1 |-> ran1, ran2 |-> ran2, ran3 |-> ran3,
         touched |-> ran1 \/ ran2 \/ ran3,
         resp |-> IF raised1 \/ raised2 \/ raised3 THEN NoResp
                  ELSE format_text_response(Plain(<<"Feature", "store", "config", "updated:">>))]

\* server.py:588-598
TdmlOutcomes == {"ok", "raise"}
reconnect_to_database(tdconn, alive, id, tdOut, tdmlOut) ==
    LET c == TDConn(tdOut, id)
    IN  IF c.raised
          THEN [tdconn |-> tdconn, alive |-> alive, stored |-> FALSE,
                resp |-> format_error_response(<<"connect", "failed">>)]
        ELSE IF tdmlOut = "raise"
          THEN [tdconn |-> c.obj, alive |-> c.obj.conn, stored |-> TRUE,
                resp |-> format_error_response(<<"context", "failed">>)]
        ELSE [tdconn |-> c.obj, alive |-> c.obj.conn, stored |-> TRUE,
              resp |-> format_text_response(Plain(<<"Reconnected", "to", "Teradata", "database", "successfully.">>))]

\* ---------------------------------------------------------------- response text, character by character
\* A string is a sequence of characters; StrLit stands for the three characters
\* of a JSON string literal, which no operation here splits.
StrLit == "\"k\""
Alphabet == {"[", "]", ",", "1", "0", " ", StrLit}
Strings == UNION {[1..n -> Alphabet] : n \in 0..MaxLen}
Whitespace == {" ", "\n", "\t", "\r"}
Digits == <<"0", "1", "2", "3", "4", "5", "6", "7", "8", "9">>
DigitChars == {Digits[i] : i \in DOMAIN Digits}
DigitVal(c) == (CHOOSE i \in DOMAIN Digits : Digits[i] = c) - 1

\* parsed JSON values
NoVal == [k |-> "none", n |-> 0, items |-> <<>>]
IntVal(n) == [k |-> "int", n |-> n, items |-> <<>>]
StrVal == [k |-> "str", n |-> 0, items |-> <<>>]
ArrVal(items) == [k |-> "arr", n |-> 0, items |-> items]
ParseFail == [ok |-> FALSE, val |-> NoVal, rest |-> <<>>]

RECURSIVE SkipWs(_)
SkipWs(s) == IF s /= <<>> /\ Head(s) \in Whitespace THEN SkipWs(Tail(s)) ELSE s

\* the digits after a leading non-zero digit
RECURSIVE ScanDigits(_, _)
ScanDigits(s, n) ==
    IF s /= <<>> /\ Head(s) \in DigitChars
      THEN ScanDigits(Tail(s), 10 * n + DigitVal(Head(s)))
      ELSE [ok |-> TRUE, val |-> IntVal(n), rest |-> s]

\* server.py:71  json.loads: one value at the head of s, and what follows it
RECURSIVE ParseValue(_), ParseItems(_, _)
ParseValue(s) ==
    IF s = <<>> THEN ParseFail
    ELSE IF Head(s) = "[" THEN
        LET r == SkipWs(Tail(s))
        IN  IF r /= <<>> /\ Head(r) = "]"
              THEN [ok |-> TRUE, val |-> ArrVal(<<>>), rest |-> Tail(r)]
              ELSE ParseItems(r, <<>>)
    ELSE IF Head(s) = StrLit THEN [ok |-> TRUE, val |-> StrVal, rest |-> Tail(s)]
    ELSE IF Head(s) = "0" THEN [ok |-> TRUE, val |-> IntVal(0), rest |-> Tail(s)]
    ELSE IF Head(s) \in DigitChars THEN ScanDigits(Tail(s), DigitVal(Head(s)))
    ELSE ParseFail

ParseItems(s, acc) ==
    LET v == ParseValue(s)
        r == SkipWs(v.rest)
    IN  IF ~v.ok \/ r = <<>> THEN ParseFail
        ELSE IF Head(r) = "]"
          THEN [ok |-> TRUE, val |-> ArrVal(Append(acc, v.val)), rest |-> Tail(r)]
        ELSE IF Head(r) = ","
          THEN ParseItems(SkipWs(Tail(r)), Append(acc, v.val))
        ELSE ParseFail

\* server.py:71  json.loads(text): the whole string is one value between
\* optional whitespace, or JSONDecodeError
json_loads(s) ==
    LET v == ParseValue(SkipWs(s))
    IN  IF v.ok /\ SkipWs(v.rest) = <<>>
          THEN [ok |-> TRUE, val |-> v.val]
          ELSE [ok |-> FALSE, val |-> NoVal]

RECURSIVE IntToChars(_)
IntToChars(n) ==
    IF n < 10 THEN <<Digits[n + 1]>>
    ELSE IntToChars(n \div 10) \o <<Digits[(n % 10) + 1]>>

Spaces(n) == [i \in 1..n |-> " "]

\* server.py:74  json.dumps(parsed, indent=2, ensure_ascii=False): every item
\* of a non-empty array on a line of its own, indented by its depth
RECURSIVE Dump(_, _, _), DumpItems(_, _, _)
Dump(v, level, sep) ==
    IF v.k = "int" THEN IntToChars(v.n)
    ELSE IF v.k = "str" THEN <<StrLit>>
    ELSE IF v.items = <<>> THEN <<"[", "]">>
    ELSE <<"[">> \o DumpItems(v.items, level + 1, sep)
            \o <<"\n">> \o Spaces(IndentWidth * level) \o <<"]">>

DumpItems(items, level, sep) ==
    <<"\n">> \o Spaces(IndentWidth * level) \o Dump(Head(items), level, sep)
        \o (IF Tail(items) = <<>> THEN <<>> ELSE sep \o DumpItems(Tail(items), level, sep))

json_dumps_no_separator(v) == Dump(v, 0, <<>>)
json_dumps(v) == Dump(v, 0, <<",">>)

\* server.py:66-80 on a string: one text item
format_text_response_stripped(s) ==
    LET parsed == json_loads(s)
    IN  <<[type |-> "text",
           text |-> IF parsed.ok THEN json_dumps(parsed.val) ELSE SkipWs(s)]>>

format_text_response_str(s) ==
    LET parsed == json_loads(s)
    IN  <<[type |-> "text",
           text |-> IF parsed.ok THEN json_dumps(parsed.val) ELSE s]>>

\* server.py:84  f"Error: {error}"
ErrorPrefix == <<"E", "r", "r", "o", "r", ":", " ">>

\* server.py:82-84
format_error_response_reencoded(error) ==
    <<[type |-> "text", text |-> ErrorPrefix \o format_text_response_str(error)[1].text]>>

format_error_response_str(error) == format_text_response_str(ErrorPrefix \o error)

NoCodec == [op |-> "none", input |-> <<>>, out |-> <<>>]

\* ---------------------------------------------------------------- best answer, record by record
\* evs_tools.py:172-180  the records of a search: a kb_id and a score each
KbIds == {1, 2}
Scores == {0, 1}
SearchRecords == [kb_id : KbIds, score : Scores]
RecordLists == UNION {[1..n -> SearchRecords] : n \in 0..MaxRecords}

\* evs_tools.py:189-192  the FAQ table: for a kb_id, its answer or no row
NoRow == [found |-> FALSE, answer |-> <<>>]
Row(answer) == [found |-> TRUE, answer |-> answer]
\* a table whose answers tell the kb_ids apart
TaggedFaqs == {[k \in KbIds |-> IF has[k] THEN Row(<<"answer", Digits[k + 1]>>) ELSE NoRow]
                 : has \in [KbIds -> BOOLEAN]}
\* a table whose one answer is any string
StringFaqs == {[k \in KbIds |-> IF k = 1 THEN Row(s) ELSE NoRow] : s \in Strings}
AnswerInputs ==
    (RecordLists \X TaggedFaqs) \cup ({<<[kb_id |-> 1, score |-> 1]>>} \X StringFaqs)

NoSimilarChars == <<"(No similar question found)">>
NoAnswerChars == <<"(No answer for this kb_id)">>

\* evs_tools.py:185  max(records, key=score): a later record replaces the one
\* held only when its score is greater
RECURSIVE MaxFrom(_, _, _, _)
MaxFrom(records, i, held, orEqual) ==
    IF i > Len(records) THEN held
    ELSE MaxFrom(records, i + 1,
                 IF records[i].score > records[held].score
                    \/ (orEqual /\ records[i].score = records[held].score)
                   THEN i ELSE held,
                 orEqual)

py_max_last_on_ties(records) == MaxFrom(records, 2, 1, TRUE)
py_max(records) == MaxFrom(records, 2, 1, FALSE)

\* evs_tools.py:180-195  from the records to the answer
getAnswerOnly(records, faq) ==
    IF records = <<>>
      THEN [queried |-> FALSE, kb_id |-> 0, answer |-> NoSimilarChars]
      ELSE LET kb_id == records[py_max(records)].kb_id
           IN  [queried |-> TRUE, kb_id |-> kb_id,
                answer |-> IF faq[kb_id].found THEN faq[kb_id].answer ELSE NoAnswerChars]

\* server.py:528 and 93  the handler's string goes through format_text_response
vector_store_best_answer(records, faq) ==
    LET h == getAnswerOnly(records, faq)
    IN  [op |-> "called", records |-> records, faq |-> faq, queried |-> h.queried,
         kb_id |-> h.kb_id, answer |-> h.answer, out |-> format_text_response_str(h.answer)]

NoBest == [op |-> "none", records |-> <<>>, faq |-> [k \in KbIds |-> NoRow], queried |-> FALSE,
           kb_id |-> 0, answer |-> <<>>, out |-> <<>>]

\* ---------------------------------------------------------------- custom tools
\* Two files of the working directory end in "_tools.yaml"; a record has a type,
\* a name, its place in its file, and its sql or prompt text.
ToolFiles == {"a_tools.yaml", "b_tools.yaml"}
RecTypes == {"tool", "prompt", "other"}
RecNames == {"q1", "base_readQuery", "execute_db_tool", "main"}
Builtin == "server.py"
FileContents(f) ==
    UNION {{[i \in 1..n |-> [type |-> c[i][1], name |-> c[i][2], src |-> <<f, i>>,
                              text |-> <<"text", f, i>>]]
              : c \in [1..n -> RecTypes \X RecNames]} : n \in 0..MaxDefs}
\* server.py:749  os.listdir() gives the files in any order
Listings == {<<"a_tools.yaml", "b_tools.yaml">>, <<"b_tools.yaml", "a_tools.yaml">>}
\* mcp.tool / mcp.prompt meeting a name they already hold: keep the first or
\* take the last
RegistryPolicies == {"first", "last"}

NoText == <<"text", Builtin, 0>>
NoDesc == [kind |-> "none", src |-> <<Builtin, 0>>, text |-> NoText]
\* server.py:202-207  base_readQuery is registered when the module defines it
BuiltinTools ==
    [n \in RecNames |-> IF n = "base_readQuery"
                          THEN [kind |-> "tool", src |-> <<Builtin, 0>>, text |-> NoText]
                          ELSE NoDesc]
NoPrompts == [n \in RecNames |-> NoDesc]

\* A module-level name bound by a def statement of server.py.
StaticDef == [kind |-> "static", src |-> <<Builtin, 0>>, text |-> NoText]
\* server.py:86-96, 202-207  the module's globals when the loop at 771 begins:
\* execute_db_tool and the built-in tool functions are defined, main is not yet
GlobalsBeforeLoop ==
    [n \in RecNames |-> IF n = "execute_db_tool" THEN StaticDef ELSE BuiltinTools[n]]
\* server.py:790  `async def main()` is executed after the loop and binds the name
def_main(globals) == [globals EXCEPT !["main"] = StaticDef]

\* server.py:761, 768  the decorator registers the function under its __name__
add_to_registry(reg, name, desc, policy) ==
    IF reg[name].kind /= "none" /\ policy = "first" THEN reg
    ELSE [reg EXCEPT ![name] = desc]

\* server.py:756-761  the prompt function closes over its own prompt text
make_custom_prompt(prompt, src) == [kind |-> "prompt", src |-> src, text |-> prompt]

\* server.py:763-768  the tool function closes over its own sql text
make_custom_query_tool(sql_text, src) == [kind |-> "tool", src |-> src, text |-> sql_text]

\* server.py:772-781  one record of query_defs
load_query_def_unknown_as_tool(st, q, policy) ==
    LET fn == IF q.type = "prompt" THEN make_custom_prompt(q.text, q.src)
              ELSE make_custom_query_tool(q.text, q.src)
    IN  [tools |-> IF q.type = "prompt" THEN st.tools
                   ELSE add_to_registry(st.tools, q.name, fn, policy),
         prompts |-> IF q.type = "prompt" THEN add_to_registry(st.prompts, q.name, fn, policy)
                     ELSE st.prompts,
         globals |-> [st.globals EXCEPT ![q.name] = fn]]

load_query_def(st, q, policy) ==
    IF q.type = "tool"
      THEN LET fn == make_custom_query_tool(q.text, q.src)
           IN  [tools |-> add_to_registry(st.tools, q.name, fn, policy),
                prompts |-> st.prompts,
                globals |-> [st.globals EXCEPT ![q.name] = fn]]
    ELSE IF q.type = "prompt"
      THEN LET fn == make_custom_prompt(q.text, q.src)
           IN  [tools |-> st.tools,
                prompts |-> add_to_registry(st.prompts, q.name, fn, policy),
                globals |-> [st.globals EXCEPT ![q.name] = fn]]
    ELSE st

\* server.py:771-781  the whole loop
RECURSIVE load_all(_, _, _)
load_all(defs, st, policy) ==
    IF defs = <<>> THEN st
    ELSE load_all(Tail(defs), load_query_def(st, Head(defs), policy), policy)

\* What a caller may send along with a call: nothing, or a text of its own.
CallerText == <<"text", "caller", 0>>
CallerArgs == {NoText, CallerText}

\* server.py:764-766  the registered tool function: no parameter, its own sql
_dynamic_tool_taking_sql(desc, arg) ==
    [kind |-> "tool", handler |-> "handle_base_readQuery",
     text |-> IF arg /= NoText THEN arg ELSE desc.text, src |-> desc.src, arg |-> arg]

_dynamic_tool(desc, arg) ==
    [kind |-> "tool", handler |-> "handle_base_readQuery",
     text |-> desc.text, src |-> desc.src, arg |-> arg]

\* server.py:757-759  the registered prompt function: no parameter, its own text
_dynamic_prompt(desc, arg) ==
    [kind |-> "prompt", handler |-> "none",
     text |-> desc.text, src |-> desc.src, arg |-> arg]

NoDynCall == [kind |-> "none", handler |-> "none", text |-> NoText, src |-> <<Builtin, 0>>,
              arg |-> NoText]

Registered(l) == [tools |-> l.tools, prompts |-> l.prompts, globals |-> l.globals]

LoaderStart ==
    [phase |-> "unread", listing |-> <<>>,
     files |-> [f \in ToolFiles |-> <<>>], policy |-> "first",
     query_defs |-> <<>>, pos |-> 1,
     tools |-> BuiltinTools, prompts |-> NoPrompts, globals |-> GlobalsBeforeLoop,
     call |-> NoDynCall]
\* no custom tool file in the working directory
LoaderDone == [LoaderStart EXCEPT !.phase = "loaded", !.globals = def_main(@)]

\* ---------------------------------------------------------------- the single worker
\* server.py:86-119  execute_db_tool and execute_vs_tool are plain functions
\* without an await, called from coroutines without an await (124-129,
\* 516-520): a call that has begun gives the loop to no other call at any of
\* its positions.
CallIds == 1..MaxPending
YieldPoints_before_refresh == {"detected"}
YieldPoints_before_connect == {"absent"}
YieldPoints == {}

\* a call: which wrapper it goes through, how far it has got, and what it
\* found and worked out when it began
CallRec(kind) ==
    [kind |-> kind, pos |-> "pending", seenEvs |-> 0, newEvs |-> 0, retry |-> FALSE,
     seenId |-> 0, newConn |-> [id |-> 0, conn |-> FALSE], newAlive |-> FALSE,
     stored |-> FALSE, raised |-> FALSE]
NoSched == [calls |-> [c \in CallIds |-> [CallRec("none") EXCEPT !.pos = "done"]],
            vsRaced |-> FALSE, overwrote |-> FALSE]
Resting == {"pending", "done"}
\* the loop may run call c: no other call has begun and not finished, unless it
\* stands at a position where it awaits
CanRun(c) == \A c2 \in CallIds \ {c} : sched.calls[c2].pos \in Resting \cup YieldPoints

\* ---------------------------------------------------------------- the process
NoStatus == -1

\* What a fs_setFeatureStoreConfig call records: the configuration it found,
\* its arguments, and what tdfs4ds.connect (608) and the count at 626 gave.
NoFsCall ==
    [before |-> FeatureStoreConfig, data_domain |-> None, db_name |-> None,
     connected |-> FALSE, counted |-> "none"]

NoCall ==
    [tool |-> "none", wrapper |-> "none", enabled |-> FALSE, checked |-> FALSE,
     startAbsent |-> FALSE, startDead |-> FALSE, startId |-> 0, endId |-> 0,
     constructed |-> 0, stored |-> FALSE, handlerRan |-> FALSE, handedUsable |-> FALSE,
     touched |-> FALSE, evsCalls |-> 0, refreshes |-> 0, execs |-> 0, expired |-> FALSE,
     retryRun |-> OkRun, raised |-> FALSE, resp |-> NoResp,
     firstRun |-> OkRun, startEvs |-> 0, fs |-> NoFsCall]

\* What every call records of the state it started in.
CallStart(tool, wrapper) ==
    [NoCall EXCEPT !.tool = tool, !.wrapper = wrapper, !.enabled = _enableEVS,
                   !.startAbsent = ~_tdconn.conn,
                   !.startDead = _tdconn.conn /\ ~connAlive,
                   !.startId = _tdconn.id, !.endId = _tdconn.id,
                   !.startEvs = _evs]

\* server.py:39-54 and :585: the state once the module is loaded
InitServer ==
    /\ pc = "STARTING"
    /\ worker = "idle"
    /\ \E out \in {"ok", "none"} :
         /\ _tdconn = TDConn(out, 0).obj
         /\ connAlive = TDConn(out, 0).obj.conn
    /\ made = 0
    /\ evsInit \in {"unconfigured", "failed", "ok"}
    /\ _enableEVS = enable_evs(evsInit /= "unconfigured", IF evsInit = "ok" THEN "ok" ELSE "raise")
    /\ _evs = IF evsInit = "ok" THEN 1 ELSE 0
    /\ fs_config = FeatureStoreConfig
    /\ shutdown_in_progress = FALSE
    /\ sigPending = <<>>
    /\ sigsSent = 0
    /\ shutdownEntries = 0
    /\ handledLate = FALSE
    /\ teardown = [markerRemoved |-> FALSE, closed |-> FALSE]
    /\ exitStatus = NoStatus
    /\ aliveFile = FALSE
    /\ transport = None
    /\ lastCall = NoCall

\* No string is at a response formatter.
Init ==
    /\ InitServer
    /\ codec = NoCodec
    /\ loader = LoaderDone
    /\ sched = NoSched
    /\ best = NoBest

\* The module is loaded up to line 747 and its start-up went well: the custom
\* tool files are still to be read.
InitLoad ==
    /\ InitServer
    /\ _tdconn.conn
    /\ evsInit = "ok"
    /\ codec = NoCodec
    /\ loader = LoaderStart
    /\ sched = NoSched
    /\ best = NoBest

\* Every call slot holds a pending call, through either wrapper.
InitConc ==
    /\ InitServer
    /\ codec = NoCodec
    /\ loader = LoaderDone
    /\ \E kinds \in [CallIds -> {"vs", "db"}] :
         sched = [NoSched EXCEPT !.calls = [c \in CallIds |-> CallRec(kinds[c])]]
    /\ best = NoBest

\* Any search records and FAQ rows may meet a best-answer call; the start-up
\* went well.
InitAnswer ==
    /\ InitServer
    /\ _tdconn.conn
    /\ evsInit = "ok"
    /\ codec = NoCodec
    /\ loader = LoaderDone
    /\ sched = NoSched
    /\ \E inp \in AnswerInputs : best = [NoBest EXCEPT !.records = inp[1], !.faq = inp[2]]

\* Any string may come to a response formatter; the start-up went well.
InitCodec ==
    /\ InitServer
    /\ _tdconn.conn
    /\ evsInit = "ok"
    /\ loader = LoaderDone
    /\ sched = NoSched
    /\ best = NoBest
    /\ codec \in {[op |-> "none", input |-> s, out |-> <<>>] : s \in Strings}

\* main() entered while the module is still loading
Main_before_loading ==
    /\ pc = "STARTING"
    /\ pc' = "RUNNING"
    /\ \E t \in Transports :
         /\ transport' = t
         /\ aliveFile' = (aliveFile \/ t = "sse")
    /\ UNCHANGED <<worker, _tdconn, connAlive, made, _enableEVS, evsInit, _evs, fs_config,
                   shutdown_in_progress, sigPending, sigsSent, shutdownEntries, handledLate, teardown, codec, sched, best, loader,
                   exitStatus,
                   lastCall>>

\* server.py:790-823  main(): the handlers are registered and the transport runs
Main ==
    /\ pc = "STARTING"
    /\ loader.phase = "loaded"
    /\ pc' = "RUNNING"
    /\ \E t \in Transports :
         /\ transport' = t
         /\ aliveFile' = (aliveFile \/ t = "sse")
    /\ UNCHANGED <<worker, _tdconn, connAlive, made, _enableEVS, evsInit, _evs, fs_config,
                   shutdown_in_progress, sigPending, sigsSent, shutdownEntries, handledLate, teardown, codec, sched, best, loader,
                   exitStatus,
                   lastCall>>

Serving == pc = "RUNNING" /\ worker = "idle"

\* The warehouse drops the connection; nothing in the process notices.
ConnDrop ==
    /\ pc = "RUNNING"
    /\ _tdconn.conn /\ connAlive
    /\ connAlive' = FALSE
    /\ UNCHANGED <<pc, worker, _tdconn, made, _enableEVS, evsInit, _evs, fs_config,
                   shutdown_in_progress, sigPending, sigsSent, shutdownEntries, handledLate, teardown, codec, sched, best, loader,
                   exitStatus,
                   aliveFile, transport, lastCall>>

\* A tool registered as `return execute_db_tool(td.handle_..., ...)`
DbToolRun(tool) ==
    /\ \E tdOut \in (IF NeedsConnect(_tdconn) THEN TDConnOutcomes ELSE {"ok"}) :
       \E hin \in HandlerInputs(tool) :
         LET r == execute_db_tool(tool, _tdconn, connAlive, made + 1, tdOut, hin)
         IN  /\ r.constructed => made < MaxConns
             /\ _tdconn' = r.tdconn
             /\ connAlive' = r.alive
             /\ made' = IF r.stored THEN made + 1 ELSE made
             /\ lastCall' = [CallStart(tool, "db") EXCEPT
                               !.checked = TRUE,
                               !.endId = r.tdconn.id,
                               !.constructed = IF r.constructed THEN 1 ELSE 0,
                               !.stored = r.stored,
                               !.handlerRan = r.handlerRan,
                               !.handedUsable = r.handedUsable,
                               !.touched = r.touched,
                               !.evsCalls = r.evsCalls,
                               !.firstRun = hin.run,
                               !.raised = r.raised,
                               !.resp = r.resp]
    /\ UNCHANGED <<pc, worker, _enableEVS, evsInit, _evs, fs_config, shutdown_in_progress,
                   sigPending, sigsSent, shutdownEntries, handledLate, teardown, codec, sched, best,
                   exitStatus, aliveFile, transport>>

DbToolCall ==
    /\ Serving
    /\ \E tool \in DbTools : DbToolRun(tool)
    /\ UNCHANGED loader

\* A descriptor made from a record of a custom tool file.
IsDynamic(desc) == desc.kind /= "none" /\ desc.src[1] /= Builtin

\* server.py:764-766  a registered custom tool is called
DynamicToolCall ==
    /\ Serving
    /\ \E n \in RecNames, arg \in CallerArgs :
         /\ IsDynamic(loader.tools[n])
         /\ loader' = [loader EXCEPT
                         !.call = [_dynamic_tool(loader.tools[n], arg) EXCEPT
                                     !.handler = IF loader.globals["execute_db_tool"] = StaticDef
                                                   THEN @ ELSE "none"]]
    \* line 766 looks the name execute_db_tool up in the module's globals
    /\ IF loader.globals["execute_db_tool"] = StaticDef
         THEN DbToolRun("base_readQuery")
         \* the name holds a function without parameters: the call raises TypeError
         ELSE /\ lastCall' = [CallStart("base_readQuery", "db") EXCEPT !.raised = TRUE]
              /\ UNCHANGED <<pc, worker, _tdconn, connAlive, made, _enableEVS, evsInit, _evs,
                             fs_config, shutdown_in_progress, sigPending, sigsSent,
                             shutdownEntries, handledLate, teardown, codec, sched, best,
                             exitStatus, aliveFile, transport>>

\* server.py:757-759  a registered custom prompt is called
DynamicPromptCall ==
    /\ Serving
    /\ \E n \in RecNames, arg \in CallerArgs :
         /\ IsDynamic(loader.prompts[n])
         /\ loader' = [loader EXCEPT !.call = _dynamic_prompt(loader.prompts[n], arg)]
    /\ UNCHANGED <<pc, worker, _tdconn, connAlive, made, _enableEVS, evsInit, _evs, fs_config,
                   shutdown_in_progress, sigPending, sigsSent, shutdownEntries, handledLate,
                   teardown, codec, sched, best, exitStatus, aliveFile, transport, lastCall>>

\* server.py:510-520  vector_store_similarity_search
VsToolCall ==
    /\ Serving
    \* only the inputs the call reads are enumerated
    /\ \E run1 \in (IF _enableEVS THEN EvsRuns ELSE {OkRun}) :
       \E refreshOut \in (IF execute_vs_tool(_enableEVS, _evs, run1, "ok", OkRun).refreshes > 0
                           THEN {"ok", "raise"} ELSE {"ok"}) :
       \E run2 \in (IF execute_vs_tool(_enableEVS, _evs, run1, refreshOut, OkRun).execs > 1
                     THEN EvsRuns ELSE {OkRun}) :
         LET r == execute_vs_tool(_enableEVS, _evs, run1, refreshOut, run2)
         IN  /\ r.refreshes > 0 => _evs < MaxSessions
             /\ _evs' = r.evs
             /\ lastCall' = [CallStart("vector_store_similarity_search", "vs") EXCEPT
                               !.evsCalls = r.evsCalls,
                               !.refreshes = r.refreshes,
                               !.execs = r.execs,
                               !.expired = (_enableEVS /\ run1.get = "ok" /\ run1.search = "raise"
                                            /\ has_expiry_signature(run1.text)),
                               !.retryRun = IF r.execs > 1 THEN run2 ELSE OkRun,
                               !.firstRun = run1,
                               !.handlerRan = r.execs > 0,
                               !.raised = r.raised,
                               !.resp = r.resp]
    /\ UNCHANGED <<pc, worker, _tdconn, connAlive, made, _enableEVS, evsInit, fs_config,
                   shutdown_in_progress, sigPending, sigsSent, shutdownEntries, handledLate, teardown, codec, sched, best, loader,
                   exitStatus,
                   aliveFile, transport>>

\* server.py:588-598
ReconnectCall ==
    /\ Serving
    /\ made < MaxConns
    /\ \E tdOut \in TDConnOutcomes :
       \E tdmlOut \in (IF tdOut = "raise" THEN {"ok"} ELSE TdmlOutcomes) :
         LET r == reconnect_to_database(_tdconn, connAlive, made + 1, tdOut, tdmlOut)
         IN  /\ _tdconn' = r.tdconn
             /\ connAlive' = r.alive
             /\ made' = IF r.stored THEN made + 1 ELSE made
             /\ lastCall' = [CallStart("reconnect_to_database", "none") EXCEPT
                               !.endId = r.tdconn.id,
                               !.constructed = 1,
                               !.stored = r.stored,
                               !.handlerRan = TRUE,
                               !.resp = r.resp]
    /\ UNCHANGED <<pc, worker, _enableEVS, evsInit, _evs, fs_config, shutdown_in_progress,
                   sigPending, sigsSent, shutdownEntries, handledLate, teardown, codec, sched, best, loader,
                   exitStatus, aliveFile, transport>>

\* server.py:601-641
FsSetConfigCall ==
    /\ Serving
    \* only the inputs the call reads are enumerated
    /\ \E data_domain \in DataDomains \cup {None}, db_name \in DbNames \cup {None},
          entity \in Entities \cup {None} :
       \E connOut \in (IF db_name /= None THEN FsConnectOutcomes ELSE {"false"}) :
       \E q1 \in (IF fs_setFeatureStoreConfig(fs_config, data_domain, db_name, entity,
                                               connOut, "zero", "zero").ran2
                   THEN SqlCountOutcomes ELSE {"zero"}) :
       \E q2 \in (IF fs_setFeatureStoreConfig(fs_config, data_domain, db_name, entity,
                                               connOut, q1, "zero").ran3
                   THEN SqlCountOutcomes ELSE {"zero"}) :
         LET r == fs_setFeatureStoreConfig(fs_config, data_domain, db_name, entity, connOut, q1, q2)
         IN  /\ fs_config' = r.cfg
             /\ lastCall' = [CallStart("fs_setFeatureStoreConfig", "none") EXCEPT
                               !.handlerRan = TRUE,
                               !.touched = r.touched,
                               !.raised = r.raised,
                               !.resp = r.resp,
                               !.fs = [before |-> fs_config, data_domain |-> data_domain,
                                       db_name |-> db_name,
                                       connected |-> db_name /= None /\ connOut = "true",
                                       counted |-> IF r.ran2 THEN q1 ELSE "none"]]
    /\ UNCHANGED <<pc, worker, _tdconn, connAlive, made, _enableEVS, evsInit, _evs,
                   shutdown_in_progress, sigPending, sigsSent, shutdownEntries, handledLate, teardown, codec, sched, best, loader,
                   exitStatus,
                   aliveFile, transport>>

\* SIGTERM or SIGINT reaches the process: server.py:802 schedules shutdown(s) on the loop
Signal ==
    /\ pc = "RUNNING"
    /\ sigsSent < MaxSignals
    /\ \E s \in Signals :
         sigPending' = Append(sigPending, [sig |-> s, late |-> shutdownEntries > 0])
    /\ sigsSent' = sigsSent + 1
    /\ UNCHANGED <<pc, worker, _tdconn, connAlive, made, _enableEVS, evsInit, _evs, fs_config,
                   shutdown_in_progress, shutdownEntries, handledLate, teardown, codec, sched, best, loader,
                   exitStatus, aliveFile, transport,
                   lastCall>>

\* server.py:848  `128 + sig if sig is not None else 0`
exit_code(sig) == IF sig /= NoStatus THEN 128 + sig ELSE 0

\* server.py:832-848  shutdown(sig) with the flag it finds and the outcome of
\* _tdconn.close(): what it gets done, and whether and how it ends the process
shutdown_exit_before_close(inProgress, sig, closeOut) ==
    [removed |-> TRUE, closed |-> FALSE, flag |-> TRUE, exits |-> TRUE,
     status |-> IF inProgress THEN 1 ELSE exit_code(sig), stuck |-> FALSE]

shutdown(inProgress, sig, closeOut) ==
    IF inProgress
      THEN \* lines 838-842
           [removed |-> TRUE, closed |-> FALSE, flag |-> TRUE, exits |-> TRUE,
            status |-> 1, stuck |-> FALSE]
    ELSE IF closeOut = "ok"
      THEN \* lines 844-848
           [removed |-> TRUE, closed |-> TRUE, flag |-> TRUE, exits |-> TRUE,
            status |-> exit_code(sig), stuck |-> FALSE]
    ELSE IF closeOut = "raise"
      THEN \* the exception ends the task at line 844
           [removed |-> TRUE, closed |-> FALSE, flag |-> FALSE, exits |-> FALSE,
            status |-> NoStatus, stuck |-> FALSE]
    ELSE \* line 844 never returns and the loop runs nothing else
         [removed |-> TRUE, closed |-> FALSE, flag |-> FALSE, exits |-> FALSE,
          status |-> NoStatus, stuck |-> TRUE]

\* the loop runs a shutdown(sig) scheduled by server.py:802
Shutdown ==
    /\ Serving
    /\ sigPending /= <<>>
    /\ sigPending' = Tail(sigPending)
    /\ shutdownEntries' = shutdownEntries + 1
    /\ handledLate' = (handledLate \/ Head(sigPending).late)
    /\ \E closeOut \in (IF shutdown_in_progress THEN {"ok"} ELSE CloseOutcomes(_tdconn)) :
         LET r == shutdown(shutdown_in_progress, Head(sigPending).sig, closeOut)
         IN  /\ aliveFile' = (aliveFile /\ ~r.removed)
             /\ teardown' = [markerRemoved |-> r.removed, closed |-> r.closed]
             /\ connAlive' = (connAlive /\ ~r.closed)
             /\ shutdown_in_progress' = r.flag
             /\ pc' = IF r.exits THEN "TERMINATED" ELSE pc
             /\ exitStatus' = r.status
             /\ worker' = IF r.stuck THEN "stuck" ELSE worker
    /\ UNCHANGED <<_tdconn, made, _enableEVS, evsInit, _evs, fs_config, sigsSent, transport,
                   codec, sched, best, loader, lastCall>>

\* How the awaited run call of the transport (server.py:814, 820, 823) ends when
\* no shutdown() ended the process first.
RunOutcomes == {"returned", "raised"}

\* server.py:857-858  asyncio.run(main()) returns or re-raises what main() did;
\* the interpreter then exits with status 0, or 1 for the uncaught exception
run_exit_status(out) == IF out = "returned" THEN 0 ELSE 1

\* server.py:814-823, 857-858  the transport's run call returns or raises, main()
\* ends with it and the process exits; nothing on this path touches /tmp/.alive
TransportEnds ==
    /\ Serving
    /\ \E out \in RunOutcomes :
         /\ pc' = "EXITED"
         /\ exitStatus' = run_exit_status(out)
    /\ UNCHANGED <<worker, _tdconn, connAlive, made, _enableEVS, evsInit, _evs, fs_config,
                   shutdown_in_progress, sigPending, sigsSent, shutdownEntries, handledLate,
                   teardown, codec, loader, sched, best, aliveFile, transport, lastCall>>

\* The string at hand goes through a response formatter, as a handler's result
\* (server.py:93, 104) or as an error message (server.py:96, 119).
FormatTextCall ==
    /\ codec.op = "none"
    /\ codec' = [op |-> "text", input |-> codec.input,
                 out |-> format_text_response_str(codec.input)]
    /\ UNCHANGED <<pc, worker, _tdconn, connAlive, made, _enableEVS, evsInit, _evs, fs_config,
                   shutdown_in_progress, sigPending, sigsSent, shutdownEntries, handledLate,
                   teardown, loader, sched, best, exitStatus, aliveFile, transport, lastCall>>

FormatErrorCall ==
    /\ codec.op = "none"
    /\ codec' = [op |-> "error", input |-> codec.input,
                 out |-> format_error_response_str(codec.input)]
    /\ UNCHANGED <<pc, worker, _tdconn, connAlive, made, _enableEVS, evsInit, _evs, fs_config,
                   shutdown_in_progress, sigPending, sigsSent, shutdownEntries, handledLate,
                   teardown, loader, sched, best, exitStatus, aliveFile, transport, lastCall>>

\* server.py:748-753  the files are listed and read, in the order of the listing
ListFiles ==
    /\ pc = "STARTING"
    /\ loader.phase = "unread"
    /\ \E a \in FileContents("a_tools.yaml"), b \in FileContents("b_tools.yaml"),
          listing \in Listings, policy \in RegistryPolicies :
         /\ Len(a) + Len(b) <= MaxDefs
         /\ LET files == [f \in ToolFiles |-> IF f = "a_tools.yaml" THEN a ELSE b]
                defs == files[listing[1]] \o files[listing[2]]
            IN  loader' = [loader EXCEPT !.phase = IF defs = <<>> THEN "loaded" ELSE "loading",
                                         !.globals = IF defs = <<>> THEN def_main(@) ELSE @,
                                         !.listing = listing, !.files = files,
                                         !.policy = policy, !.query_defs = defs]
    /\ UNCHANGED <<pc, worker, _tdconn, connAlive, made, _enableEVS, evsInit, _evs, fs_config,
                   shutdown_in_progress, sigPending, sigsSent, shutdownEntries, handledLate,
                   teardown, codec, sched, best, exitStatus, aliveFile, transport, lastCall>>

\* server.py:771-781  one turn of the loop over query_defs
LoadRecord ==
    /\ pc = "STARTING"
    /\ loader.phase = "loading"
    /\ LET st == load_query_def(Registered(loader), loader.query_defs[loader.pos], loader.policy)
       IN  loader' = [loader EXCEPT !.tools = st.tools, !.prompts = st.prompts,
                                    !.globals = IF loader.pos = Len(loader.query_defs)
                                                  THEN def_main(st.globals) ELSE st.globals,
                                    !.pos = loader.pos + 1,
                                    !.phase = IF loader.pos = Len(loader.query_defs)
                                                THEN "loaded" ELSE "loading"]
    /\ UNCHANGED <<pc, worker, _tdconn, connAlive, made, _enableEVS, evsInit, _evs, fs_config,
                   shutdown_in_progress, sigPending, sigsSent, shutdownEntries, handledLate,
                   teardown, codec, sched, best, exitStatus, aliveFile, transport, lastCall>>

\* server.py:99-108  a pending vector-store call begins: the handler runs; when it
\* fails with the expiry signature the call is about to refresh
VsStart(c) ==
    /\ Serving
    /\ sched.calls[c].kind = "vs"
    /\ sched.calls[c].pos = "pending"
    /\ CanRun(c)
    /\ \E run1 \in (IF _enableEVS THEN EvsRuns ELSE {OkRun}) :
       \E refreshOut \in (IF execute_vs_tool(_enableEVS, _evs, run1, "ok", OkRun).refreshes > 0
                           THEN {"ok", "raise"} ELSE {"ok"}) :
       \E run2 \in (IF execute_vs_tool(_enableEVS, _evs, run1, refreshOut, OkRun).execs > 1
                     THEN EvsRuns ELSE {OkRun}) :
         LET r == execute_vs_tool(_enableEVS, _evs, run1, refreshOut, run2)
         IN  /\ r.refreshes > 0 => _evs < MaxSessions
             /\ sched' = [sched EXCEPT
                   !.calls[c] = [@ EXCEPT !.pos = IF r.refreshes > 0 THEN "detected" ELSE "done",
                                          !.seenEvs = _evs, !.newEvs = r.evs,
                                          !.retry = r.execs > 1,
                                          !.raised = r.raised],
                   !.vsRaced = @ \/ (r.execs > 0 /\ \E c2 \in CallIds \ {c} :
                                                     sched.calls[c2].pos = "detected")]
    /\ UNCHANGED <<pc, worker, _tdconn, connAlive, made, _enableEVS, evsInit, _evs, fs_config,
                   shutdown_in_progress, sigPending, sigsSent, shutdownEntries, handledLate,
                   teardown, codec, loader, best, exitStatus, aliveFile, transport, lastCall>>

\* server.py:109  _evs = td.evs_connect.refresh_evs()
VsRefresh(c) ==
    /\ Serving
    /\ sched.calls[c].pos = "detected"
    /\ CanRun(c)
    /\ _evs' = sched.calls[c].newEvs
    /\ sched' = [sched EXCEPT
          !.calls[c] = [@ EXCEPT !.pos = IF sched.calls[c].retry THEN "refreshed" ELSE "done"],
          !.vsRaced = @ \/ _evs /= sched.calls[c].seenEvs]
    /\ UNCHANGED <<pc, worker, _tdconn, connAlive, made, _enableEVS, evsInit, fs_config,
                   shutdown_in_progress, sigPending, sigsSent, shutdownEntries, handledLate,
                   teardown, codec, loader, best, exitStatus, aliveFile, transport, lastCall>>

\* server.py:110-114  the one retried execution, and its response
VsRetry(c) ==
    /\ Serving
    /\ sched.calls[c].pos = "refreshed"
    /\ CanRun(c)
    /\ sched' = [sched EXCEPT
          !.calls[c] = [@ EXCEPT !.pos = "done"],
          !.vsRaced = @ \/ _evs /= sched.calls[c].newEvs]
    /\ UNCHANGED <<pc, worker, _tdconn, connAlive, made, _enableEVS, evsInit, _evs, fs_config,
                   shutdown_in_progress, sigPending, sigsSent, shutdownEntries, handledLate,
                   teardown, codec, loader, best, exitStatus, aliveFile, transport, lastCall>>

\* server.py:88-93  a pending warehouse call begins: it checks the handle; with a
\* handle present the handler runs, with none the call is about to connect
DbStart(c) ==
    /\ Serving
    /\ sched.calls[c].kind = "db"
    /\ sched.calls[c].pos = "pending"
    /\ CanRun(c)
    /\ \E tool \in DbTools,
          tdOut \in (IF NeedsConnect(_tdconn) THEN TDConnOutcomes ELSE {"ok"}) :
       \E hin \in HandlerInputs(tool) :
         LET r == execute_db_tool(tool, _tdconn, connAlive, made + 1, tdOut, hin)
         IN  /\ r.constructed => made < MaxConns
             /\ sched' = [sched EXCEPT
                   !.calls[c] = [@ EXCEPT !.pos = IF r.constructed THEN "absent" ELSE "done",
                                          !.seenId = _tdconn.id, !.newConn = r.tdconn,
                                          !.newAlive = r.alive, !.stored = r.stored,
                                          !.raised = r.raised]]
    /\ UNCHANGED <<pc, worker, _tdconn, connAlive, made, _enableEVS, evsInit, _evs, fs_config,
                   shutdown_in_progress, sigPending, sigsSent, shutdownEntries, handledLate,
                   teardown, codec, loader, best, exitStatus, aliveFile, transport, lastCall>>

\* server.py:91-96  _tdconn = td.TDConn(), then the handler and the response
DbConnect(c) ==
    /\ Serving
    /\ sched.calls[c].pos = "absent"
    /\ CanRun(c)
    /\ _tdconn' = sched.calls[c].newConn
    /\ connAlive' = sched.calls[c].newAlive
    /\ made' = IF sched.calls[c].stored THEN made + 1 ELSE made
    /\ sched' = [sched EXCEPT
          !.calls[c] = [@ EXCEPT !.pos = "done"],
          !.overwrote = @ \/ (sched.calls[c].stored
                              /\ (~NeedsConnect(_tdconn) \/ _tdconn.id /= sched.calls[c].seenId))]
    /\ UNCHANGED <<pc, worker, _enableEVS, evsInit, _evs, fs_config,
                   shutdown_in_progress, sigPending, sigsSent, shutdownEntries, handledLate,
                   teardown, codec, loader, best, exitStatus, aliveFile, transport, lastCall>>

\* server.py:522-532  vector_store_best_answer with the search and the FAQ
\* lookup succeeding
BestAnswerCall ==
    /\ best.op = "none"
    /\ best' = vector_store_best_answer(best.records, best.faq)
    /\ UNCHANGED <<pc, worker, _tdconn, connAlive, made, _enableEVS, evsInit, _evs, fs_config,
                   shutdown_in_progress, sigPending, sigsSent, shutdownEntries, handledLate,
                   teardown, codec, loader, sched, exitStatus, aliveFile, transport, lastCall>>

\* The calls that use the connection handle and the vector-store session,
\* served between start-up and the first signal.
Next ==
    \/ Main
    \/ ConnDrop
    \/ DbToolCall
    \/ VsToolCall
    \/ ReconnectCall

Spec == Init /\ [][Next]_vars

\* The feature-store configuration, which shares no state with the handles.
NextFs ==
    \/ Main
    \/ ConnDrop
    \/ FsSetConfigCall

SpecFs == Init /\ [][NextFs]_vars

\* The lifecycle alone: signals and shutdown() around the connection handle.
NextLife ==
    \/ Main
    \/ ConnDrop
    \/ ReconnectCall
    \/ Signal
    \/ Shutdown

SpecLife == Init /\ [][NextLife]_vars

\* The loop runs what is scheduled on it: main() starts, and a shutdown(sig)
\* scheduled by a signal handler runs once the loop is free.
SpecLifeFair == SpecLife /\ WF_vars(Main) /\ WF_vars(Shutdown)

\* The lifecycle with the ways the process ends other than through shutdown().
NextRun ==
    \/ Main
    \/ ConnDrop
    \/ ReconnectCall
    \/ Signal
    \/ Shutdown
    \/ TransportEnds

SpecRun == Init /\ [][NextRun]_vars

\* The response formatters applied to strings.
NextCodec ==
    \/ FormatTextCall
    \/ FormatErrorCall

SpecCodec == InitCodec /\ [][NextCodec]_vars

\* Loading the module: the custom tool files, then main().
NextLoad ==
    \/ ListFiles
    \/ LoadRecord
    \/ Main
    \/ DynamicToolCall
    \/ DynamicPromptCall

SpecLoad == InitLoad /\ [][NextLoad]_vars

\* Several calls wait for the single worker.
NextConc ==
    \/ Main
    \/ ConnDrop
    \/ \E c \in CallIds : VsStart(c)
    \/ \E c \in CallIds : VsRefresh(c)
    \/ \E c \in CallIds : VsRetry(c)
    \/ \E c \in CallIds : DbStart(c)
    \/ \E c \in CallIds : DbConnect(c)

SpecConc == InitConc /\ [][NextConc]_vars

\* The best-answer handler applied to search records and FAQ rows.
NextAnswer == BestAnswerCall

SpecAnswer == InitAnswer /\ [][NextAnswer]_vars

\* ---------------------------------------------------------------- properties
VsTools == {"vector_store_similarity_search", "vector_store_best_answer"}

\* The text of the response starts with the marker of format_error_response.
IsErrorEnvelope(resp) ==
    /\ resp.type = "text"
    /\ ~resp.pretty
    /\ Len(resp.text) >= Len(ErrorMarker)
    /\ SubSeq(resp.text, 1, Len(ErrorMarker)) = ErrorMarker

\* C1: a warehouse handler invoked through execute_db_tool is never handed a dead
\* connection: whenever the stored handle is absent, or present but not alive, at
\* the start of a call, a fresh connection is established and stored in place of
\* the old handle before the handler runs.
C1_DeadHandleReplacedBeforeHandler ==
    (lastCall.wrapper = "db" /\ lastCall.handlerRan
        /\ (lastCall.startAbsent \/ lastCall.startDead))
    => (lastCall.stored /\ _tdconn.id /= lastCall.startId)

\* C2: when the vector store is enabled and the vector client fails with an error
\* carrying the expiry signature during a vector_store_similarity_search call,
\* exactly one session refresh is performed and the operation is executed exactly
\* one more time.
C2_ExpiryRefreshesOnceRetriesOnce ==
    (lastCall.tool = "vector_store_similarity_search" /\ lastCall.expired)
    => (lastCall.refreshes = 1 /\ lastCall.execs = 2)

\* C3: execute_vs_tool never raises: a failure of the first execution, of the
\* session refresh or of the retried execution is returned as an error result.
C3_VsToolNeverRaises ==
    lastCall.wrapper = "vs" => ~lastCall.raised

\* C4: while the vector store is disabled, vector_store_similarity_search and
\* vector_store_best_answer make no call to the vector-search service or to the
\* session accessor and return the fixed "not available" error.
C4_DisabledMakesNoVectorCall ==
    (lastCall.tool \in VsTools /\ ~lastCall.enabled)
    => (lastCall.evsCalls = 0 /\ lastCall.resp = format_error_response(UnavailableText))

\* C5: for every registered tool, a failure raised while the tool runs is caught
\* and returned as an error envelope; no tool call lets an exception escape.
C5_NoToolCallRaises ==
    lastCall.tool /= "none" => (~lastCall.raised /\ lastCall.resp.type = "text")

\* C6: a second shutdown trigger handled after a first shutdown has started and
\* before the process has terminated ends the process at once with exit status 1.
C6_SecondTriggerForcesExit ==
    handledLate => (pc = "TERMINATED" /\ exitStatus = 1)

\* C7: if the start-up connect to the vector store failed or was not attempted,
\* the enabled flag is false in every later state, whatever tool calls are made.
C7_DisabledStaysDisabled ==
    evsInit /= "ok" => ~_enableEVS

C7_Witness ==
    /\ evsInit = "failed"
    /\ lastCall.tool = "vector_store_similarity_search"
    /\ lastCall.resp = format_error_response(UnavailableText)
    /\ made >= 1

\* C8: one call of execute_vs_tool performs at most one refresh and at most two
\* executions of the operation, and when the retried execution fails again, even
\* with the expiry signature, the call ends with an error envelope.
C8_VsCallBounded ==
    lastCall.wrapper = "vs" =>
        /\ lastCall.refreshes <= 1
        /\ lastCall.execs <= 2
        /\ lastCall.execs <= lastCall.refreshes + 1
        /\ (lastCall.execs = 2 /\ lastCall.retryRun.get = "raise")
              => (~lastCall.raised /\ IsErrorEnvelope(lastCall.resp))

C8_Witness ==
    /\ lastCall.wrapper = "vs"
    /\ lastCall.refreshes = 1
    /\ lastCall.execs = 2
    /\ lastCall.retryRun.get = "raise"
    /\ has_expiry_signature(lastCall.retryRun.text)
    /\ IsErrorEnvelope(lastCall.resp)

\* C9: no tool call reaches the warehouse without the connection check having
\* been made at the start of that same call.
C9_CheckBeforeEveryWarehouseCall ==
    lastCall.touched => lastCall.checked

\* C10: an execute_db_tool call that starts with the stored handle present leaves
\* the handle variable unchanged and creates no new connection.
C10_PresentHandleReused ==
    (lastCall.wrapper = "db" /\ ~lastCall.startAbsent)
    => (_tdconn.id = lastCall.startId /\ lastCall.constructed = 0 /\ ~lastCall.stored)

C10_Witness ==
    /\ lastCall.wrapper = "db"
    /\ ~lastCall.startAbsent
    /\ lastCall.startId > 0
    /\ lastCall.handedUsable
    /\ _tdconn.id = lastCall.startId

\* The response reports a failure: the marker envelope, or a handler's JSON error.
IsErrorResult(resp) ==
    \/ IsErrorEnvelope(resp)
    \/ (resp.type = "text" /\ resp.pretty /\ resp.obj.status = "error")

\* C11: when the reconnect attempted inside a tool call fails, that call returns
\* an error envelope, the process keeps running, and the next tool call attempts
\* the reconnect again.
C11_FailedReconnectIsErrorAndRetried ==
    (lastCall.wrapper = "db" /\ lastCall.startAbsent /\ lastCall.constructed = 1
        /\ ~_tdconn.conn)
    => /\ ~lastCall.raised
       /\ IsErrorResult(lastCall.resp)
       /\ pc = "RUNNING"
       /\ NeedsConnect(_tdconn)

\* C12: the lifecycle only moves forward through STARTING, RUNNING, SHUTTING_DOWN,
\* TERMINATED, and every termination signal handled while RUNNING eventually
\* leads to TERMINATED, whatever the outcome of closing the connection handle.
LifecycleRank(p) == IF p = "STARTING" THEN 0 ELSE IF p = "RUNNING" THEN 1 ELSE 3

C12_SignalLeadsToTerminated ==
    /\ [][LifecycleRank(pc') >= LifecycleRank(pc)]_vars
    /\ [](shutdownEntries >= 1 => <>(pc = "TERMINATED"))

\* C13: the exit status is 128 plus the signal number when shutdown is triggered
\* by a signal (143 for SIGTERM, 130 for SIGINT), 0 without a signal, and 1 when
\* shutdown is entered while a shutdown is already in progress; no other status.
C13_ExitStatusBySituation ==
    pc = "TERMINATED" =>
        IF shutdownEntries >= 2
          THEN exitStatus = 1
          ELSE exitStatus \in {exit_code(SIGTERM), exit_code(SIGINT), exit_code(NoStatus)}

\* C14: on every first (graceful) shutdown the connection handle has been closed
\* and the liveness marker removed before the process terminates.
C14_TeardownBeforeTermination ==
    (pc = "TERMINATED" /\ exitStatus /= 1)
    => (teardown.closed /\ teardown.markerRemoved /\ ~aliveFile
        /\ ~(_tdconn.conn /\ connAlive))

C14_Witness ==
    /\ pc = "TERMINATED"
    /\ exitStatus = 143
    /\ transport = "sse"
    /\ _tdconn.conn
    /\ teardown.closed
    /\ ~aliveFile

\* C15: the liveness marker is created whenever the server starts in a networked
\* transport mode (sse and streamable-http), is not created in stdio mode, and
\* exists from then until shutdown removes it.
C15_MarkerInNetworkedModes ==
    (pc = "RUNNING" /\ shutdownEntries = 0)
    => (aliveFile <=> transport \in {"sse", "streamable-http"})

\* The status a response carries: the status field of a JSON envelope, "error"
\* for the marker envelope, and none for any other text.
Status(resp) ==
    IF resp.type = "text" /\ resp.pretty THEN resp.obj.status
    ELSE IF IsErrorEnvelope(resp) THEN "error"
    ELSE "none"

\* C16: every tool response is a structured envelope whose status is exactly one
\* of success and error, on dispatcher errors, on vector-store handler errors and
\* on best-answer results alike.
C16_EveryResponseHasStatus ==
    (lastCall.tool /= "none" /\ ~lastCall.raised)
    => Status(lastCall.resp) \in {"success", "error"}

\* C17: for every message m, format_error_response(m) yields exactly one text
\* item whose text is "Error: " followed by m unchanged: the marker is never
\* dropped or altered by JSON re-serialization.
C17_ErrorMarkerKept ==
    codec.op = "error"
    => /\ Len(codec.out) = 1
       /\ codec.out[1].type = "text"
       /\ codec.out[1].text = ErrorPrefix \o codec.input

\* a message that is JSON itself, with whitespace that re-serialization would change
C17_Witness ==
    /\ codec.op = "error"
    /\ json_loads(codec.input).ok
    /\ json_dumps(json_loads(codec.input).val) /= codec.input
    /\ codec.out[1].text = ErrorPrefix \o codec.input

\* C18: for every string that is not JSON, format_text_response returns a text
\* equal to the input character for character.
C18_NonJsonUnchanged ==
    (codec.op = "text" /\ ~json_loads(codec.input).ok)
    => /\ Len(codec.out) = 1
       /\ codec.out[1].text = codec.input

\* a non-JSON string that begins with whitespace and holds a bracket
C18_Witness ==
    /\ codec.op = "text"
    /\ ~json_loads(codec.input).ok
    /\ Len(codec.input) >= 3
    /\ Head(codec.input) = " "
    /\ \E i \in DOMAIN codec.input : codec.input[i] = "["
    /\ codec.out[1].text = codec.input

\* C19: for every JSON-parseable string, the output of format_text_response
\* parses to a structure equal to the input's, and formatting the output again
\* yields the same output.
C19_JsonRoundTripIdempotent ==
    (codec.op = "text" /\ json_loads(codec.input).ok)
    => /\ json_loads(codec.out[1].text).ok
       /\ json_loads(codec.out[1].text).val = json_loads(codec.input).val
       /\ format_text_response_str(codec.out[1].text) = codec.out

\* an array of two items, which pretty-printing rewrites
C19_Witness ==
    /\ codec.op = "text"
    /\ json_loads(codec.input).ok
    /\ json_loads(codec.input).val.k = "arr"
    /\ Len(json_loads(codec.input).val.items) = 2
    /\ codec.out[1].text /= codec.input

\* C20: records with the same name, or the name of a built-in, resolve to one
\* descriptor by a fixed policy that does not depend on the order of the
\* directory listing: what is registered is what reading the files in sorted
\* order registers.
C20_ResolutionIndependentOfListing ==
    loader.phase = "loaded"
    => LET sorted == loader.files["a_tools.yaml"] \o loader.files["b_tools.yaml"]
           fixed == load_all(sorted, Registered(LoaderStart), loader.policy)
       IN  /\ loader.tools = fixed.tools
           /\ loader.prompts = fixed.prompts

KnownType(q) == q.type \in {"tool", "prompt"}

\* C21: at startup a descriptor is registered for every record whose type is
\* tool or prompt, in record order; a record of any other type registers
\* nothing and does not abort the loading: the records after it are registered
\* and the server starts.
C21_KnownTypesRegisteredOthersSkipped ==
    loader.phase = "loaded"
    => /\ \A i \in DOMAIN loader.query_defs :
            LET q == loader.query_defs[i]
            IN  /\ q.type = "tool" => loader.tools[q.name].kind = "tool"
                /\ q.type = "prompt" => loader.prompts[q.name].kind = "prompt"
                /\ ~KnownType(q) => /\ loader.tools[q.name].src /= q.src
                                    /\ loader.prompts[q.name].src /= q.src
                                    /\ loader.globals[q.name].src /= q.src
       /\ Registered(loader)
            = [load_all(SelectSeq(loader.query_defs, KnownType), Registered(LoaderStart),
                        loader.policy) EXCEPT !.globals = def_main(@)]
       /\ loader.pos = Len(loader.query_defs) + 1

\* a record of another type comes first, the tool after it is registered, the server runs
C21_Witness ==
    /\ pc = "RUNNING"
    /\ Len(loader.query_defs) = 2
    /\ loader.query_defs[1].type = "other"
    /\ loader.query_defs[2].type = "tool"
    /\ loader.query_defs[2].name = "q1"
    /\ loader.tools["q1"].src = loader.query_defs[2].src

\* C22: every dynamically registered tool takes no caller argument and, however
\* many records were loaded before or after its own, runs the read-query handler
\* with exactly the SQL text of its own record; every dynamically registered
\* prompt returns exactly the template text of its own record.
C22_DynamicCallUsesOwnRecord ==
    loader.call.kind /= "none"
    => /\ \E i \in DOMAIN loader.query_defs :
            /\ loader.query_defs[i].src = loader.call.src
            /\ loader.query_defs[i].type = loader.call.kind
            /\ loader.query_defs[i].text = loader.call.text
       /\ loader.call.text /= CallerText
       /\ loader.call.kind = "tool"
            => (loader.call.handler = "handle_base_readQuery" /\ lastCall.tool = "base_readQuery")

\* a tool whose record is followed by another one is called with a text of the caller's
C22_Witness ==
    /\ loader.call.kind = "tool"
    /\ loader.call.arg = CallerText
    /\ Len(loader.query_defs) = 2
    /\ loader.call.src = loader.query_defs[1].src
    /\ loader.call.text = loader.query_defs[1].text
    /\ lastCall.handlerRan

\* C23: no call is served before the registry is complete: every registration,
\* built-in and from the custom tool files, is done before the transport takes
\* calls, and what is registered does not change afterwards.
C23_RegistryCompleteBeforeServing ==
    /\ [](pc /= "STARTING" => loader.phase = "loaded")
    /\ []((lastCall.tool /= "none" \/ loader.call.kind /= "none") => loader.phase = "loaded")
    /\ [][pc /= "STARTING" => Registered(loader') = Registered(loader)]_vars

\* a custom prompt is served after two records were loaded
C23_Witness ==
    /\ pc = "RUNNING"
    /\ loader.call.kind = "prompt"
    /\ Len(loader.query_defs) = 2
    /\ loader.phase = "loaded"

\* C24: with several vector-store calls pending on the single worker, the
\* sequence failure detected, refresh, retry of one call is never interleaved
\* with another call: no other call runs with the stale session between the
\* start of a refresh and the replacement of the stored session.
C24_VsRefreshNotInterleaved ==
    /\ ~sched.vsRaced
    /\ \A c \in CallIds :
         sched.calls[c].pos \in {"detected", "refreshed"}
         => /\ \A c2 \in CallIds \ {c} : sched.calls[c2].pos \in Resting
            /\ sched.calls[c].pos = "detected" => _evs = sched.calls[c].seenEvs
            /\ sched.calls[c].pos = "refreshed" => _evs = sched.calls[c].newEvs

\* one vector-store call is about to refresh while another one is pending
C24_Witness ==
    /\ sched.calls[1].kind = "vs"
    /\ sched.calls[1].pos = "detected"
    /\ sched.calls[2].kind = "vs"
    /\ sched.calls[2].pos = "pending"

\* C25: with several warehouse calls pending on the single worker, the check and
\* the replacement of the connection handle are atomic with respect to other
\* calls: two calls never both find the handle absent and both create a
\* connection, one overwriting the other; a connection is stored only over the
\* absent handle the call found.
C25_CheckThenReplaceAtomic ==
    /\ ~sched.overwrote
    /\ Cardinality({c \in CallIds : sched.calls[c].pos = "absent"}) <= 1
    /\ \A c \in CallIds :
         sched.calls[c].pos = "absent"
         => /\ \A c2 \in CallIds \ {c} : sched.calls[c2].pos \in Resting
            /\ NeedsConnect(_tdconn)
            /\ _tdconn.id = sched.calls[c].seenId

\* one warehouse call found the handle absent while another one is pending
C25_Witness ==
    /\ sched.calls[1].kind = "db"
    /\ sched.calls[1].pos = "absent"
    /\ sched.calls[1].stored
    /\ sched.calls[2].kind = "db"
    /\ sched.calls[2].pos = "pending"

\* The first execution of the handler failed with the text it was given.
FirstRunFailed(call) == call.firstRun.get = "raise" \/ call.firstRun.search = "raise"

\* The response carries the text: after the marker, or as the message of the
\* handler's JSON error.
CarriesText(resp, text) ==
    \/ (IsErrorEnvelope(resp) /\ resp.text = ErrorMarker \o text)
    \/ (resp.pretty /\ resp.obj = [status |-> "error", payload |-> text])

\* C26: when an enabled vector-store call fails with an error whose text holds
\* neither "401" nor "Session expired", no refresh and no retry are performed,
\* the stored session is left unchanged, and the result is an error envelope
\* carrying that error's text.
C26_OtherFailureNoRefresh ==
    (lastCall.wrapper = "vs" /\ lastCall.enabled /\ FirstRunFailed(lastCall)
        /\ ~Contains(lastCall.firstRun.text, <<"401">>)
        /\ ~Contains(lastCall.firstRun.text, <<"Session", "expired">>))
    => /\ lastCall.refreshes = 0
       /\ lastCall.execs = 1
       /\ _evs = lastCall.startEvs
       /\ ~lastCall.raised
       /\ IsErrorResult(lastCall.resp)
       /\ CarriesText(lastCall.resp, lastCall.firstRun.text)

\* the session could not be had, for a reason other than expiry
C26_Witness ==
    /\ lastCall.wrapper = "vs"
    /\ lastCall.enabled
    /\ lastCall.firstRun.get = "raise"
    /\ lastCall.firstRun.text = <<"Session", "closed">>
    /\ lastCall.resp.text = ErrorMarker \o <<"Session", "closed">>
    /\ lastCall.refreshes = 0

\* C27: the text of a tool response begins with the marker "Error: " if and only
\* if the operation failed; in particular a failure inside a vector-store handler
\* yields a payload that begins with the marker, and no success is delivered
\* with it.
C27_MarkerIffFailed ==
    (lastCall.tool /= "none" /\ ~lastCall.raised)
    => /\ IsErrorResult(lastCall.resp) => IsErrorEnvelope(lastCall.resp)
       /\ (lastCall.tool \in VsTools /\ lastCall.handlerRan /\ FirstRunFailed(lastCall))
            => IsErrorEnvelope(lastCall.resp)
       /\ (lastCall.resp.pretty /\ lastCall.resp.obj.status = "success")
            => ~IsErrorEnvelope(lastCall.resp)

\* C28: the best-answer operation returns the stored answer as it is: for every
\* answer string found in the FAQ table the text of the response equals that
\* string exactly, with no JSON wrapper and no re-serialization.
C28_AnswerReturnedAsIs ==
    (best.op = "called" /\ best.queried /\ best.faq[best.kb_id].found)
    => /\ Len(best.out) = 1
       /\ best.out[1].text = best.faq[best.kb_id].answer

\* C29: for every non-empty list of search records the best-answer handler
\* looks up the answer of a record whose score is maximal among all records,
\* the first such record on ties; for an empty list it returns
\* "(No similar question found)" without querying the FAQ table, and when the
\* lookup finds no row it returns "(No answer for this kb_id)".
C29_MaxScoreRecordLookedUp ==
    best.op = "called"
    => IF best.records = <<>>
         THEN ~best.queried /\ best.answer = NoSimilarChars
         ELSE /\ best.queried
              /\ \E i \in DOMAIN best.records :
                   /\ best.records[i].kb_id = best.kb_id
                   /\ \A j \in DOMAIN best.records :
                        /\ best.records[j].score <= best.records[i].score
                        /\ j < i => best.records[j].score < best.records[i].score
                   /\ best.answer = IF best.faq[best.records[i].kb_id].found
                                      THEN best.faq[best.records[i].kb_id].answer
                                      ELSE NoAnswerChars

\* two records tie on the score and name different rows; the first one's answer is returned
C29_Witness ==
    /\ best.op = "called"
    /\ Len(best.records) = 2
    /\ best.records[1].score = best.records[2].score
    /\ best.records[1].kb_id /= best.records[2].kb_id
    /\ best.faq[1].found /\ best.faq[2].found
    /\ best.answer = best.faq[best.records[1].kb_id].answer

\* C30: after any sequence of fs_setFeatureStoreConfig calls: a call that
\* connects to a database whose name differs, case-insensitively, from the
\* stored one leaves the stored data_domain none unless the same call supplies
\* a data_domain found in the new database's feature catalog; a supplied
\* data_domain not found in the catalog clears the stored one; and the three
\* catalog names always refer to the stored db_name.
C30_DomainFollowsDatabase ==
    /\ lastCall.tool = "fs_setFeatureStoreConfig"
       => LET f == lastCall.fs
              differs == ~(f.before.db_name /= None /\ Upper(f.before.db_name) = Upper(f.db_name))
          IN  /\ (f.connected /\ differs)
                 => IF f.data_domain /= None /\ f.counted = "pos"
                      THEN fs_config.data_domain = f.data_domain
                      ELSE fs_config.data_domain = None
              /\ (f.data_domain /= None /\ f.counted = "zero")
                 => fs_config.data_domain = None
    /\ IF fs_config.db_name = None
         THEN /\ fs_config.feature_catalog = None
              /\ fs_config.process_catalog = None
              /\ fs_config.dataset_catalog = None
         ELSE /\ fs_config.feature_catalog = CatalogName(fs_config.db_name, FeatureCatalogView)
              /\ fs_config.process_catalog = CatalogName(fs_config.db_name, ProcessCatalogView)
              /\ fs_config.dataset_catalog = CatalogName(fs_config.db_name, DatasetCatalogView)

\* a data_domain was stored for one database; a call without data_domain
\* connected to another one, and the stored data_domain is gone
C30_Witness ==
    /\ lastCall.tool = "fs_setFeatureStoreConfig"
    /\ lastCall.fs.connected
    /\ lastCall.fs.before.data_domain /= None
    /\ Upper(lastCall.fs.before.db_name) /= Upper(lastCall.fs.db_name)
    /\ lastCall.fs.data_domain = None
    /\ fs_config.db_name = lastCall.fs.db_name
    /\ fs_config.data_domain = None

\* C31: when reconnect_to_database returns an error envelope, the stored
\* connection handle is the handle stored before the call: a reconnect that
\* fails at creating the connection or at establishing the teradataml context
\* leaves the shared connection state unchanged.
C31_FailedReconnectLeavesHandle ==
    (lastCall.tool = "reconnect_to_database" /\ IsErrorEnvelope(lastCall.resp))
    => /\ ~lastCall.stored
       /\ lastCall.endId = lastCall.startId

\* C32: registering dynamic operations never changes the server's own
\* machinery: whatever the names of the records, names of module-level symbols
\* included, once loading is over the dispatch helper execute_db_tool and main
\* are the ones server.py defines, a custom tool that is called runs through
\* that helper, and a registry that keeps the first holder of a name still
\* holds the built-in tools.
C32_MachineryStaysStatic ==
    loader.phase = "loaded"
    => /\ loader.globals["execute_db_tool"] = StaticDef
       /\ loader.globals["main"] = StaticDef
       /\ loader.call.kind = "tool" => loader.call.handler = "handle_base_readQuery"
       /\ loader.policy = "first"
            => \A n \in RecNames : BuiltinTools[n].kind /= "none" => loader.tools[n] = BuiltinTools[n]

\* C33: whenever the process is no longer serving, because it terminated through
\* shutdown, or because the transport failed to start, or because the
\* transport's run call returned or raised without a signal, the liveness
\* marker file is absent: the marker never outlives the serving server.
C33_MarkerNeverOutlivesServer ==
    pc \in {"TERMINATED", "EXITED"} => ~aliveFile
====
